---- MODULE Spec2Model ----
(***************************************************************************)
(* Model of craigslist_complex_generator.py: the URL builder build_url,    *)
(* the four category generators with their literal task tables, the CSV    *)
(* row conversion and main.                                                *)
(*                                                                         *)
(* A Python str whose characters matter (URLs, parameter names and values) *)
(* is a sequence of one-character strings, so that prefixes, suffixes and  *)
(* single characters can be inspected.  A Python str that is only copied   *)
(* or compared whole (task text, task_id, location, timezone, difficulty,  *)
(* category) is a TLA+ string.                                             *)
(***************************************************************************)
EXTENDS Integers, Sequences, FiniteSets, TLC

VARIABLES
  pc,             \* position of main
  argv_region,    \* the --region argument as given on the command line
  region,         \* args.region after parse_args
  gen_i,          \* index of the next entry of main's generators list
  all_tasks,      \* main's all_tasks list
  file_open,      \* TRUE once open(args.output, "w") has run
  file_header,    \* the header row written by writer.writeheader()
  file_rows,      \* the rows written by writer.writerow()
  task_i,         \* index of the next task of the write loop
  u_pc,           \* position inside a call of build_url
  base_url,       \* build_url argument
  category_code,  \* build_url argument
  params,         \* build_url argument: <<key, value>> items in insertion order
  url,            \* build_url local
  encoded_params, \* build_url local
  u_i             \* index of the next item of params.items()

main_vars == <<pc, argv_region, region, gen_i, all_tasks, file_open, file_header, file_rows, task_i>>
url_vars == <<u_pc, base_url, category_code, params, url, encoded_params, u_i>>
vars == <<pc, argv_region, region, gen_i, all_tasks, file_open, file_header, file_rows, task_i, u_pc, base_url, category_code, params, url, encoded_params, u_i>>

(***************************************************************************)
(* Python values a params mapping holds: str, int, list of str/int.        *)
(***************************************************************************)
StrV(s) == [t |-> "str", s |-> s, n |-> 0, l |-> <<>>]

IntV(n) == [t |-> "int", s |-> <<>>, n |-> n, l |-> <<>>]

ListV(l) == [t |-> "list", s |-> <<>>, n |-> 0, l |-> l]

(***************************************************************************)
(* Region table.                                                           *)
(***************************************************************************)
REGIONS ==
  [sfbay |->
     [url_prefix |-> <<"h","t","t","p","s",":","/","/","s","f","b","a","y",".","c","r","a","i","g","s","l","i","s","t",".","o","r","g">>,
      location |-> "San Francisco, CA, United States",
      timezone |-> "America/Los_Angeles"],
   losangeles |->
     [url_prefix |-> <<"h","t","t","p","s",":","/","/","l","o","s","a","n","g","e","l","e","s",".","c","r","a","i","g","s","l","i","s","t",".","o","r","g">>,
      location |-> "Los Angeles, CA, United States",
      timezone |-> "America/Los_Angeles"],
   newyork |->
     [url_prefix |-> <<"h","t","t","p","s",":","/","/","n","e","w","y","o","r","k",".","c","r","a","i","g","s","l","i","s","t",".","o","r","g">>,
      location |-> "New York, NY, United States",
      timezone |-> "America/New_York"],
   seattle |->
     [url_prefix |-> <<"h","t","t","p","s",":","/","/","s","e","a","t","t","l","e",".","c","r","a","i","g","s","l","i","s","t",".","o","r","g">>,
      location |-> "Seattle, WA, United States",
      timezone |-> "America/Los_Angeles"],
   chicago |->
     [url_prefix |-> <<"h","t","t","p","s",":","/","/","c","h","i","c","a","g","o",".","c","r","a","i","g","s","l","i","s","t",".","o","r","g">>,
      location |-> "Chicago, IL, United States",
      timezone |-> "America/Chicago"]]

(***************************************************************************)
(* String conversions used by build_url.                                   *)
(***************************************************************************)
Digits == <<"0","1","2","3","4","5","6","7","8","9">>

RECURSIVE NatToStr(_)
NatToStr(n) == IF n < 10 THEN <<Digits[n + 1]>> ELSE NatToStr(n \div 10) \o <<Digits[(n % 10) + 1]>>

\* str(n) of a Python int: decimal digits, a leading "-" when negative
IntToStr(n) == IF n < 0 THEN <<"-">> \o NatToStr(0 - n) ELSE NatToStr(n)

\* repr(v) of a list element; the str case is exact for strings without
\* quote, backslash or non-printing characters
repr(v) == IF v.t = "str" THEN <<"'">> \o v.s \o <<"'">> ELSE IntToStr(v.n)

RECURSIVE ReprItems(_)
ReprItems(l) ==
  IF l = <<>> THEN <<>>
  ELSE IF Len(l) = 1 THEN repr(l[1])
  ELSE repr(l[1]) \o <<",", " ">> \o ReprItems(Tail(l))

\* str(value), which is also what an f-string field {value} formats to
str(v) ==
  CASE v.t = "str" -> v.s
    [] v.t = "int" -> IntToStr(v.n)
    [] v.t = "list" -> <<"[">> \o ReprItems(v.l) \o <<"]">>

\* the characters chr(32)..chr(126) in code order; a TLA+ string cannot hold
\* chr(96), whose slot holds a name no character equals
AsciiChars == <<" ","!","\"","#","$","%","&","'","(",")","*","+",",","-",".","/","0","1","2","3","4","5","6","7","8","9",":",";","<","=",">","?","@","A","B","C","D","E","F","G","H","I","J","K","L","M","N","O","P","Q","R","S","T","U","V","W","X","Y","Z","[","\\","]","^","_","chr(96)","a","b","c","d","e","f","g","h","i","j","k","l","m","n","o","p","q","r","s","t","u","v","w","x","y","z","{","|","}","~">>

ord(c) == 31 + (CHOOSE i \in 1..Len(AsciiChars) : AsciiChars[i] = c)

HexDigits == <<"0","1","2","3","4","5","6","7","8","9","A","B","C","D","E","F">>

\* urllib.parse.quote never escapes letters, digits and "_.-~"; "/" is the
\* default value of its safe argument
QuoteSafe == {"a","b","c","d","e","f","g","h","i","j","k","l","m","n","o","p","q","r","s","t","u","v","w","x","y","z","A","B","C","D","E","F","G","H","I","J","K","L","M","N","O","P","Q","R","S","T","U","V","W","X","Y","Z","0","1","2","3","4","5","6","7","8","9","_",".","-","~","/"}

\* variant: only the space is escaped
QuoteChar_spaceOnly(c) == IF c = " " THEN <<"%","2","0">> ELSE <<c>>

QuoteChar(c) ==
  IF c \in QuoteSafe THEN <<c>>
  ELSE <<"%", HexDigits[(ord(c) \div 16) + 1], HexDigits[(ord(c) % 16) + 1]>>

RECURSIVE quote(_)
quote(s) == IF s = <<>> THEN <<>> ELSE QuoteChar(s[1]) \o quote(Tail(s))

\* sep.join(items)
RECURSIVE Join(_, _)
Join(sep, items) ==
  IF items = <<>> THEN <<>>
  ELSE IF Len(items) = 1 THEN items[1]
  ELSE items[1] \o sep \o Join(sep, Tail(items))

(***************************************************************************)
(* build_url                                                               *)
(***************************************************************************)
\* variant: only the key query is percent-encoded
EncodeItem_queryOnly(key, value) ==
  IF key = <<"q","u","e","r","y">>
  THEN <<key \o <<"=">> \o quote(str(value))>>
  ELSE IF value.t = "list"
  THEN [j \in 1..Len(value.l) |-> key \o <<"=">> \o str(value.l[j])]
  ELSE <<key \o <<"=">> \o str(value)>>

\* variant: no branch for lists, a list is formatted like a scalar
EncodeItem_noListBranch(key, value) ==
  IF key = <<"q","u","e","r","y">> \/ key = <<"a","u","t","o","_","m","a","k","e","_","m","o","d","e","l">>
  THEN <<key \o <<"=">> \o quote(str(value))>>
  ELSE <<key \o <<"=">> \o str(value)>>

\* variant: every scalar is percent-encoded, whatever its key
EncodeItem_quoteAll(key, value) ==
  IF key = <<"q","u","e","r","y">> \/ key = <<"a","u","t","o","_","m","a","k","e","_","m","o","d","e","l">>
  THEN <<key \o <<"=">> \o quote(str(value))>>
  ELSE IF value.t = "list"
  THEN [j \in 1..Len(value.l) |-> key \o <<"=">> \o str(value.l[j])]
  ELSE <<key \o <<"=">> \o quote(str(value))>>

\* the pairs one iteration of the loop over params.items() appends
EncodeItem(key, value) ==
  IF key = <<"q","u","e","r","y">> \/ key = <<"a","u","t","o","_","m","a","k","e","_","m","o","d","e","l">>
  THEN <<key \o <<"=">> \o quote(str(value))>>
  ELSE IF value.t = "list"
  THEN [j \in 1..Len(value.l) |-> key \o <<"=">> \o str(value.l[j])]
  ELSE <<key \o <<"=">> \o str(value)>>

RECURSIVE EncodeItems(_)
EncodeItems(items) ==
  IF items = <<>> THEN <<>> ELSE EncodeItem(items[1][1], items[1][2]) \o EncodeItems(Tail(items))

UrlStart(base, code) == base \o <<"/","s","e","a","r","c","h","/">> \o code

UrlQuery(pairs) == <<"?">> \o Join(<<"&">>, pairs)

UrlFragment == <<"#","s","e","a","r","c","h","=","2","~","g","a","l","l","e","r","y","~","0">>

build_url(base, code, items) ==
  UrlStart(base, code) \o (IF items # <<>> THEN UrlQuery(EncodeItems(items)) ELSE <<>>) \o UrlFragment

(***************************************************************************)
(* Literal task tables of the four category generators.                    *)
(***************************************************************************)
car_tasks ==
  <<
    [task |-> "Find Toyota cars with images priced under $15,000.",
     params |-> <<<<<<"a","u","t","o","_","m","a","k","e","_","m","o","d","e","l">>, StrV(<<"t","o","y","o","t","a">>)>>,
                 <<<<"h","a","s","P","i","c">>, StrV(<<"1">>)>>,
                 <<<<"m","a","x","_","p","r","i","c","e">>, StrV(<<"1","5","0","0","0">>)>>>>,
     difficulty |-> "medium"],
    [task |-> "Browse Honda Accord cars sold by owners.",
     params |-> <<<<<<"a","u","t","o","_","m","a","k","e","_","m","o","d","e","l">>, StrV(<<"h","o","n","d","a"," ","a","c","c","o","r","d">>)>>,
                 <<<<"p","u","r","v","e","y","o","r">>, StrV(<<"o","w","n","e","r">>)>>>>,
     difficulty |-> "medium"],
    [task |-> "Find cars under $8,000 with images sorted by lowest price.",
     params |-> <<<<<<"m","a","x","_","p","r","i","c","e">>, StrV(<<"8","0","0","0">>)>>,
                 <<<<"h","a","s","P","i","c">>, StrV(<<"1">>)>>,
                 <<<<"s","o","r","t">>, StrV(<<"p","r","i","c","e","a","s","c">>)>>>>,
     difficulty |-> "medium"],
    [task |-> "Search for Ford vehicles from dealers with photos.",
     params |-> <<<<<<"a","u","t","o","_","m","a","k","e","_","m","o","d","e","l">>, StrV(<<"f","o","r","d">>)>>,
                 <<<<"p","u","r","v","e","y","o","r">>, StrV(<<"d","e","a","l","e","r">>)>>,
                 <<<<"h","a","s","P","i","c">>, StrV(<<"1">>)>>>>,
     difficulty |-> "medium"],
    [task |-> "Find cars priced between $5,000 and $12,000.",
     params |-> <<<<<<"m","i","n","_","p","r","i","c","e">>, StrV(<<"5","0","0","0">>)>>,
                 <<<<"m","a","x","_","p","r","i","c","e">>, StrV(<<"1","2","0","0","0">>)>>>>,
     difficulty |-> "easy"],
    [task |-> "Find cars with automatic transmission under $10,000 with images.",
     params |-> <<<<<<"a","u","t","o","_","t","r","a","n","s","m","i","s","s","i","o","n">>, StrV(<<"1">>)>>,
                 <<<<"m","a","x","_","p","r","i","c","e">>, StrV(<<"1","0","0","0","0">>)>>,
                 <<<<"h","a","s","P","i","c">>, StrV(<<"1">>)>>>>,
     difficulty |-> "hard"],
    [task |-> "Search for manual transmission cars priced between $5,000 and $20,000.",
     params |-> <<<<<<"a","u","t","o","_","t","r","a","n","s","m","i","s","s","i","o","n">>, StrV(<<"2">>)>>,
                 <<<<"m","i","n","_","p","r","i","c","e">>, StrV(<<"5","0","0","0">>)>>,
                 <<<<"m","a","x","_","p","r","i","c","e">>, StrV(<<"2","0","0","0","0">>)>>>>,
     difficulty |-> "hard"],
    [task |-> "Browse manual transmission sports cars with images.",
     params |-> <<<<<<"a","u","t","o","_","t","r","a","n","s","m","i","s","s","i","o","n">>, StrV(<<"2">>)>>,
                 <<<<"a","u","t","o","_","b","o","d","y","t","y","p","e">>, StrV(<<"3">>)>>,
                 <<<<"h","a","s","P","i","c">>, StrV(<<"1">>)>>>>,
     difficulty |-> "hard"],
    [task |-> "Find electric vehicles with images.",
     params |-> <<<<<<"a","u","t","o","_","f","u","e","l","_","t","y","p","e">>, StrV(<<"4">>)>>,
                 <<<<"h","a","s","P","i","c">>, StrV(<<"1">>)>>>>,
     difficulty |-> "medium"],
    [task |-> "Browse hybrid cars under $25,000 sold by owners.",
     params |-> <<<<<<"a","u","t","o","_","f","u","e","l","_","t","y","p","e">>, StrV(<<"3">>)>>,
                 <<<<"m","a","x","_","p","r","i","c","e">>, StrV(<<"2","5","0","0","0">>)>>,
                 <<<<"p","u","r","v","e","y","o","r">>, StrV(<<"o","w","n","e","r">>)>>>>,
     difficulty |-> "hard"],
    [task |-> "Find diesel trucks with images priced under $35,000.",
     params |-> <<<<<<"a","u","t","o","_","f","u","e","l","_","t","y","p","e">>, StrV(<<"2">>)>>,
                 <<<<"a","u","t","o","_","b","o","d","y","t","y","p","e">>, StrV(<<"9">>)>>,
                 <<<<"h","a","s","P","i","c">>, StrV(<<"1">>)>>,
                 <<<<"m","a","x","_","p","r","i","c","e">>, StrV(<<"3","5","0","0","0">>)>>>>,
     difficulty |-> "hard"],
    [task |-> "Search for gasoline SUVs under $20,000.",
     params |-> <<<<<<"a","u","t","o","_","f","u","e","l","_","t","y","p","e">>, StrV(<<"1">>)>>,
                 <<<<"a","u","t","o","_","b","o","d","y","t","y","p","e">>, StrV(<<"1","0">>)>>,
                 <<<<"m","a","x","_","p","r","i","c","e">>, StrV(<<"2","0","0","0","0">>)>>>>,
     difficulty |-> "hard"],
    [task |-> "Find SUVs with images under $18,000.",
     params |-> <<<<<<"a","u","t","o","_","b","o","d","y","t","y","p","e">>, StrV(<<"1","0">>)>>,
                 <<<<"h","a","s","P","i","c">>, StrV(<<"1">>)>>,
                 <<<<"m","a","x","_","p","r","i","c","e">>, StrV(<<"1","8","0","0","0">>)>>>>,
     difficulty |-> "medium"],
    [task |-> "Browse pickup trucks sold by owners with photos.",
     params |-> <<<<<<"a","u","t","o","_","b","o","d","y","t","y","p","e">>, StrV(<<"7">>)>>,
                 <<<<"p","u","r","v","e","y","o","r">>, StrV(<<"o","w","n","e","r">>)>>,
                 <<<<"h","a","s","P","i","c">>, StrV(<<"1">>)>>>>,
     difficulty |-> "medium"],
    [task |-> "Find sedans with automatic transmission under $12,000.",
     params |-> <<<<<<"a","u","t","o","_","b","o","d","y","t","y","p","e">>, StrV(<<"8">>)>>,
                 <<<<"a","u","t","o","_","t","r","a","n","s","m","i","s","s","i","o","n">>, StrV(<<"1">>)>>,
                 <<<<"m","a","x","_","p","r","i","c","e">>, StrV(<<"1","2","0","0","0">>)>>>>,
     difficulty |-> "hard"],
    [task |-> "Search for convertibles priced between $15,000 and $40,000 with images.",
     params |-> <<<<<<"a","u","t","o","_","b","o","d","y","t","y","p","e">>, StrV(<<"2">>)>>,
                 <<<<"m","i","n","_","p","r","i","c","e">>, StrV(<<"1","5","0","0","0">>)>>,
                 <<<<"m","a","x","_","p","r","i","c","e">>, StrV(<<"4","0","0","0","0">>)>>,
                 <<<<"h","a","s","P","i","c">>, StrV(<<"1">>)>>>>,
     difficulty |-> "hard"],
    [task |-> "Find 4WD vehicles with images under $25,000.",
     params |-> <<<<<<"a","u","t","o","_","d","r","i","v","e","t","r","a","i","n">>, StrV(<<"3">>)>>,
                 <<<<"h","a","s","P","i","c">>, StrV(<<"1">>)>>,
                 <<<<"m","a","x","_","p","r","i","c","e">>, StrV(<<"2","5","0","0","0">>)>>>>,
     difficulty |-> "hard"],
    [task |-> "Browse rear-wheel drive cars sold by owners.",
     params |-> <<<<<<"a","u","t","o","_","d","r","i","v","e","t","r","a","i","n">>, StrV(<<"2">>)>>,
                 <<<<"p","u","r","v","e","y","o","r">>, StrV(<<"o","w","n","e","r">>)>>>>,
     difficulty |-> "medium"],
    [task |-> "Find front-wheel drive sedans under $15,000 with images.",
     params |-> <<<<<<"a","u","t","o","_","d","r","i","v","e","t","r","a","i","n">>, StrV(<<"1">>)>>,
                 <<<<"a","u","t","o","_","b","o","d","y","t","y","p","e">>, StrV(<<"8">>)>>,
                 <<<<"m","a","x","_","p","r","i","c","e">>, StrV(<<"1","5","0","0","0">>)>>,
                 <<<<"h","a","s","P","i","c">>, StrV(<<"1">>)>>>>,
     difficulty |-> "hard"],
    [task |-> "Find cars with clean title under $10,000 with images.",
     params |-> <<<<<<"s","r","c","h","T","y","p","e">>, StrV(<<"T">>)>>,
                 <<<<"m","a","x","_","p","r","i","c","e">>, StrV(<<"1","0","0","0","0">>)>>,
                 <<<<"h","a","s","P","i","c">>, StrV(<<"1">>)>>>>,
     difficulty |-> "hard"],
    [task |-> "Browse salvage title vehicles under $5,000.",
     params |-> <<<<<<"a","u","t","o","_","t","i","t","l","e","_","s","t","a","t","u","s">>, StrV(<<"2">>)>>,
                 <<<<"m","a","x","_","p","r","i","c","e">>, StrV(<<"5","0","0","0">>)>>>>,
     difficulty |-> "medium"],
    [task |-> "Find cars from 2020 or newer with images.",
     params |-> <<<<<<"m","i","n","_","a","u","t","o","_","y","e","a","r">>, StrV(<<"2","0","2","0">>)>>,
                 <<<<"h","a","s","P","i","c">>, StrV(<<"1">>)>>>>,
     difficulty |-> "medium"],
    [task |-> "Browse classic cars from 1985 or older with photos.",
     params |-> <<<<<<"m","a","x","_","a","u","t","o","_","y","e","a","r">>, StrV(<<"1","9","8","5">>)>>,
                 <<<<"h","a","s","P","i","c">>, StrV(<<"1">>)>>>>,
     difficulty |-> "medium"],
    [task |-> "Find cars between 2018 and 2022 priced under $25,000.",
     params |-> <<<<<<"m","i","n","_","a","u","t","o","_","y","e","a","r">>, StrV(<<"2","0","1","8">>)>>,
                 <<<<"m","a","x","_","a","u","t","o","_","y","e","a","r">>, StrV(<<"2","0","2","2">>)>>,
                 <<<<"m","a","x","_","p","r","i","c","e">>, StrV(<<"2","5","0","0","0">>)>>>>,
     difficulty |-> "hard"],
    [task |-> "Find low mileage cars under 50,000 miles with images.",
     params |-> <<<<<<"m","a","x","_","a","u","t","o","_","m","i","l","e","s">>, StrV(<<"5","0","0","0","0">>)>>,
                 <<<<"h","a","s","P","i","c">>, StrV(<<"1">>)>>>>,
     difficulty |-> "medium"],
    [task |-> "Browse cars with less than 80,000 miles priced under $15,000.",
     params |-> <<<<<<"m","a","x","_","a","u","t","o","_","m","i","l","e","s">>, StrV(<<"8","0","0","0","0">>)>>,
                 <<<<"m","a","x","_","p","r","i","c","e">>, StrV(<<"1","5","0","0","0">>)>>>>,
     difficulty |-> "hard"],
    [task |-> "Find white SUVs with images under $22,000.",
     params |-> <<<<<<"a","u","t","o","_","p","a","i","n","t">>, StrV(<<"1","0">>)>>,
                 <<<<"a","u","t","o","_","b","o","d","y","t","y","p","e">>, StrV(<<"1","0">>)>>,
                 <<<<"h","a","s","P","i","c">>, StrV(<<"1">>)>>,
                 <<<<"m","a","x","_","p","r","i","c","e">>, StrV(<<"2","2","0","0","0">>)>>>>,
     difficulty |-> "hard"],
    [task |-> "Browse black sedans sold by owners with photos.",
     params |-> <<<<<<"a","u","t","o","_","p","a","i","n","t">>, StrV(<<"1">>)>>,
                 <<<<"a","u","t","o","_","b","o","d","y","t","y","p","e">>, StrV(<<"8">>)>>,
                 <<<<"p","u","r","v","e","y","o","r">>, StrV(<<"o","w","n","e","r">>)>>,
                 <<<<"h","a","s","P","i","c">>, StrV(<<"1">>)>>>>,
     difficulty |-> "hard"],
    [task |-> "Find Toyota Camry with automatic transmission under 70,000 miles priced between $12,000 and $22,000 with images.",
     params |-> <<<<<<"a","u","t","o","_","m","a","k","e","_","m","o","d","e","l">>, StrV(<<"t","o","y","o","t","a"," ","c","a","m","r","y">>)>>,
                 <<<<"a","u","t","o","_","t","r","a","n","s","m","i","s","s","i","o","n">>, StrV(<<"1">>)>>,
                 <<<<"m","a","x","_","a","u","t","o","_","m","i","l","e","s">>, StrV(<<"7","0","0","0","0">>)>>,
                 <<<<"m","i","n","_","p","r","i","c","e">>, StrV(<<"1","2","0","0","0">>)>>,
                 <<<<"m","a","x","_","p","r","i","c","e">>, StrV(<<"2","2","0","0","0">>)>>,
                 <<<<"h","a","s","P","i","c">>, StrV(<<"1">>)>>>>,
     difficulty |-> "hard"],
    [task |-> "Search for Honda CR-V SUVs with 4WD from 2019 or newer under $30,000 with photos.",
     params |-> <<<<<<"a","u","t","o","_","m","a","k","e","_","m","o","d","e","l">>, StrV(<<"h","o","n","d","a"," ","c","r","-","v">>)>>,
                 <<<<"a","u","t","o","_","b","o","d","y","t","y","p","e">>, StrV(<<"1","0">>)>>,
                 <<<<"a","u","t","o","_","d","r","i","v","e","t","r","a","i","n">>, StrV(<<"3">>)>>,
                 <<<<"m","i","n","_","a","u","t","o","_","y","e","a","r">>, StrV(<<"2","0","1","9">>)>>,
                 <<<<"m","a","x","_","p","r","i","c","e">>, StrV(<<"3","0","0","0","0">>)>>,
                 <<<<"h","a","s","P","i","c">>, StrV(<<"1">>)>>>>,
     difficulty |-> "hard"]
  >>

motorcycle_tasks ==
  <<
    [task |-> "Find Harley-Davidson motorcycles with images priced under $15,000.",
     params |-> <<<<<<"a","u","t","o","_","m","a","k","e","_","m","o","d","e","l">>, StrV(<<"h","a","r","l","e","y">>)>>,
                 <<<<"h","a","s","P","i","c">>, StrV(<<"1">>)>>,
                 <<<<"m","a","x","_","p","r","i","c","e">>, StrV(<<"1","5","0","0","0">>)>>>>,
     difficulty |-> "hard"],
    [task |-> "Browse Honda motorcycles sold by owners.",
     params |-> <<<<<<"a","u","t","o","_","m","a","k","e","_","m","o","d","e","l">>, StrV(<<"h","o","n","d","a">>)>>,
                 <<<<"p","u","r","v","e","y","o","r">>, StrV(<<"o","w","n","e","r">>)>>>>,
     difficulty |-> "medium"],
    [task |-> "Find Yamaha motorcycles priced between $4,000 and $10,000.",
     params |-> <<<<<<"a","u","t","o","_","m","a","k","e","_","m","o","d","e","l">>, StrV(<<"y","a","m","a","h","a">>)>>,
                 <<<<"m","i","n","_","p","r","i","c","e">>, StrV(<<"4","0","0","0">>)>>,
                 <<<<"m","a","x","_","p","r","i","c","e">>, StrV(<<"1","0","0","0","0">>)>>>>,
     difficulty |-> "hard"],
    [task |-> "Search for Kawasaki Ninja motorcycles with images.",
     params |-> <<<<<<"a","u","t","o","_","m","a","k","e","_","m","o","d","e","l">>, StrV(<<"k","a","w","a","s","a","k","i"," ","n","i","n","j","a">>)>>,
                 <<<<"h","a","s","P","i","c">>, StrV(<<"1">>)>>>>,
     difficulty |-> "medium"],
    [task |-> "Browse BMW motorcycles under $18,000 with photos.",
     params |-> <<<<<<"a","u","t","o","_","m","a","k","e","_","m","o","d","e","l">>, StrV(<<"b","m","w">>)>>,
                 <<<<"m","a","x","_","p","r","i","c","e">>, StrV(<<"1","8","0","0","0">>)>>,
                 <<<<"h","a","s","P","i","c">>, StrV(<<"1">>)>>>>,
     difficulty |-> "hard"],
    [task |-> "Find Ducati motorcycles sold by owners with images.",
     params |-> <<<<<<"a","u","t","o","_","m","a","k","e","_","m","o","d","e","l">>, StrV(<<"d","u","c","a","t","i">>)>>,
                 <<<<"p","u","r","v","e","y","o","r">>, StrV(<<"o","w","n","e","r">>)>>,
                 <<<<"h","a","s","P","i","c">>, StrV(<<"1">>)>>>>,
     difficulty |-> "hard"],
    [task |-> "Find motorcycles from 2020 or newer with images.",
     params |-> <<<<<<"m","i","n","_","a","u","t","o","_","y","e","a","r">>, StrV(<<"2","0","2","0">>)>>,
                 <<<<"h","a","s","P","i","c">>, StrV(<<"1">>)>>>>,
     difficulty |-> "medium"],
    [task |-> "Browse vintage motorcycles from 1990 or older with photos.",
     params |-> <<<<<<"m","a","x","_","a","u","t","o","_","y","e","a","r">>, StrV(<<"1","9","9","0">>)>>,
                 <<<<"h","a","s","P","i","c">>, StrV(<<"1">>)>>>>,
     difficulty |-> "medium"],
    [task |-> "Find motorcycles between 2017 and 2022 priced under $12,000.",
     params |-> <<<<<<"m","i","n","_","a","u","t","o","_","y","e","a","r">>, StrV(<<"2","0","1","7">>)>>,
                 <<<<"m","a","x","_","a","u","t","o","_","y","e","a","r">>, StrV(<<"2","0","2","2">>)>>,
                 <<<<"m","a","x","_","p","r","i","c","e">>, StrV(<<"1","2","0","0","0">>)>>>>,
     difficulty |-> "hard"],
    [task |-> "Find low mileage motorcycles under 10,000 miles with images.",
     params |-> <<<<<<"m","a","x","_","a","u","t","o","_","m","i","l","e","s">>, StrV(<<"1","0","0","0","0">>)>>,
                 <<<<"h","a","s","P","i","c">>, StrV(<<"1">>)>>>>,
     difficulty |-> "medium"],
    [task |-> "Browse motorcycles with less than 25,000 miles priced under $8,000.",
     params |-> <<<<<<"m","a","x","_","a","u","t","o","_","m","i","l","e","s">>, StrV(<<"2","5","0","0","0">>)>>,
                 <<<<"m","a","x","_","p","r","i","c","e">>, StrV(<<"8","0","0","0">>)>>>>,
     difficulty |-> "hard"],
    [task |-> "Find new condition motorcycles with images.",
     params |-> <<<<<<"c","o","n","d","i","t","i","o","n">>, StrV(<<"1","0">>)>>,
                 <<<<"h","a","s","P","i","c">>, StrV(<<"1">>)>>>>,
     difficulty |-> "medium"],
    [task |-> "Browse motorcycles in excellent condition under $10,000.",
     params |-> <<<<<<"c","o","n","d","i","t","i","o","n">>, StrV(<<"3","0">>)>>,
                 <<<<"m","a","x","_","p","r","i","c","e">>, StrV(<<"1","0","0","0","0">>)>>>>,
     difficulty |-> "hard"],
    [task |-> "Find like-new motorcycles sold by owners.",
     params |-> <<<<<<"c","o","n","d","i","t","i","o","n">>, StrV(<<"2","0">>)>>,
                 <<<<"p","u","r","v","e","y","o","r">>, StrV(<<"o","w","n","e","r">>)>>>>,
     difficulty |-> "medium"],
    [task |-> "Find sport bikes under $9,000 with images.",
     params |-> <<<<<<"q","u","e","r","y">>, StrV(<<"s","p","o","r","t"," ","b","i","k","e">>)>>,
                 <<<<"h","a","s","P","i","c">>, StrV(<<"1">>)>>,
                 <<<<"m","a","x","_","p","r","i","c","e">>, StrV(<<"9","0","0","0">>)>>>>,
     difficulty |-> "hard"],
    [task |-> "Browse cruiser motorcycles sold by owners with photos.",
     params |-> <<<<<<"q","u","e","r","y">>, StrV(<<"c","r","u","i","s","e","r">>)>>,
                 <<<<"p","u","r","v","e","y","o","r">>, StrV(<<"o","w","n","e","r">>)>>,
                 <<<<"h","a","s","P","i","c">>, StrV(<<"1">>)>>>>,
     difficulty |-> "hard"],
    [task |-> "Search for touring motorcycles priced between $8,000 and $20,000.",
     params |-> <<<<<<"q","u","e","r","y">>, StrV(<<"t","o","u","r","i","n","g">>)>>,
                 <<<<"m","i","n","_","p","r","i","c","e">>, StrV(<<"8","0","0","0">>)>>,
                 <<<<"m","a","x","_","p","r","i","c","e">>, StrV(<<"2","0","0","0","0">>)>>>>,
     difficulty |-> "hard"],
    [task |-> "Find dirt bikes under $6,000 with images.",
     params |-> <<<<<<"q","u","e","r","y">>, StrV(<<"d","i","r","t"," ","b","i","k","e">>)>>,
                 <<<<"h","a","s","P","i","c">>, StrV(<<"1">>)>>,
                 <<<<"m","a","x","_","p","r","i","c","e">>, StrV(<<"6","0","0","0">>)>>>>,
     difficulty |-> "hard"],
    [task |-> "Browse adventure motorcycles with photos.",
     params |-> <<<<<<"q","u","e","r","y">>, StrV(<<"a","d","v","e","n","t","u","r","e">>)>>,
                 <<<<"h","a","s","P","i","c">>, StrV(<<"1">>)>>>>,
     difficulty |-> "medium"],
    [task |-> "Find motorcycles under $5,000 sorted by lowest price with images.",
     params |-> <<<<<<"m","a","x","_","p","r","i","c","e">>, StrV(<<"5","0","0","0">>)>>,
                 <<<<"s","o","r","t">>, StrV(<<"p","r","i","c","e","a","s","c">>)>>,
                 <<<<"h","a","s","P","i","c">>, StrV(<<"1">>)>>>>,
     difficulty |-> "hard"],
    [task |-> "Browse Harley-Davidson motorcycles sorted by newest listings.",
     params |-> <<<<<<"a","u","t","o","_","m","a","k","e","_","m","o","d","e","l">>, StrV(<<"h","a","r","l","e","y">>)>>,
                 <<<<"s","o","r","t">>, StrV(<<"d","a","t","e">>)>>>>,
     difficulty |-> "medium"],
    [task |-> "Find Harley-Davidson touring motorcycles from 2018 or newer under $22,000 with images.",
     params |-> <<<<<<"a","u","t","o","_","m","a","k","e","_","m","o","d","e","l">>, StrV(<<"h","a","r","l","e","y">>)>>,
                 <<<<"q","u","e","r","y">>, StrV(<<"t","o","u","r","i","n","g">>)>>,
                 <<<<"m","i","n","_","a","u","t","o","_","y","e","a","r">>, StrV(<<"2","0","1","8">>)>>,
                 <<<<"m","a","x","_","p","r","i","c","e">>, StrV(<<"2","2","0","0","0">>)>>,
                 <<<<"h","a","s","P","i","c">>, StrV(<<"1">>)>>>>,
     difficulty |-> "hard"],
    [task |-> "Browse Honda sport bikes with less than 15,000 miles from owners.",
     params |-> <<<<<<"a","u","t","o","_","m","a","k","e","_","m","o","d","e","l">>, StrV(<<"h","o","n","d","a">>)>>,
                 <<<<"q","u","e","r","y">>, StrV(<<"s","p","o","r","t">>)>>,
                 <<<<"m","a","x","_","a","u","t","o","_","m","i","l","e","s">>, StrV(<<"1","5","0","0","0">>)>>,
                 <<<<"p","u","r","v","e","y","o","r">>, StrV(<<"o","w","n","e","r">>)>>>>,
     difficulty |-> "hard"],
    [task |-> "Find Suzuki motorcycles in excellent condition priced between $3,000 and $8,000.",
     params |-> <<<<<<"a","u","t","o","_","m","a","k","e","_","m","o","d","e","l">>, StrV(<<"s","u","z","u","k","i">>)>>,
                 <<<<"c","o","n","d","i","t","i","o","n">>, StrV(<<"3","0">>)>>,
                 <<<<"m","i","n","_","p","r","i","c","e">>, StrV(<<"3","0","0","0">>)>>,
                 <<<<"m","a","x","_","p","r","i","c","e">>, StrV(<<"8","0","0","0">>)>>>>,
     difficulty |-> "hard"],
    [task |-> "Search for KTM dirt bikes under $7,000 with photos from owners.",
     params |-> <<<<<<"a","u","t","o","_","m","a","k","e","_","m","o","d","e","l">>, StrV(<<"k","t","m">>)>>,
                 <<<<"q","u","e","r","y">>, StrV(<<"d","i","r","t">>)>>,
                 <<<<"m","a","x","_","p","r","i","c","e">>, StrV(<<"7","0","0","0">>)>>,
                 <<<<"h","a","s","P","i","c">>, StrV(<<"1">>)>>,
                 <<<<"p","u","r","v","e","y","o","r">>, StrV(<<"o","w","n","e","r">>)>>>>,
     difficulty |-> "hard"]
  >>

rv_tasks ==
  <<
    [task |-> "Find Class A motorhomes with images priced under $60,000.",
     params |-> <<<<<<"q","u","e","r","y">>, StrV(<<"c","l","a","s","s"," ","a"," ","m","o","t","o","r","h","o","m","e">>)>>,
                 <<<<"h","a","s","P","i","c">>, StrV(<<"1">>)>>,
                 <<<<"m","a","x","_","p","r","i","c","e">>, StrV(<<"6","0","0","0","0">>)>>>>,
     difficulty |-> "hard"],
    [task |-> "Browse Class B camper vans sold by owners.",
     params |-> <<<<<<"q","u","e","r","y">>, StrV(<<"c","l","a","s","s"," ","b">>)>>,
                 <<<<"p","u","r","v","e","y","o","r">>, StrV(<<"o","w","n","e","r">>)>>>>,
     difficulty |-> "medium"],
    [task |-> "Search for Class C motorhomes priced between $35,000 and $75,000.",
     params |-> <<<<<<"q","u","e","r","y">>, StrV(<<"c","l","a","s","s"," ","c"," ","m","o","t","o","r","h","o","m","e">>)>>,
                 <<<<"m","i","n","_","p","r","i","c","e">>, StrV(<<"3","5","0","0","0">>)>>,
                 <<<<"m","a","x","_","p","r","i","c","e">>, StrV(<<"7","5","0","0","0">>)>>>>,
     difficulty |-> "hard"],
    [task |-> "Find travel trailers under $18,000 with images.",
     params |-> <<<<<<"q","u","e","r","y">>, StrV(<<"t","r","a","v","e","l"," ","t","r","a","i","l","e","r">>)>>,
                 <<<<"h","a","s","P","i","c">>, StrV(<<"1">>)>>,
                 <<<<"m","a","x","_","p","r","i","c","e">>, StrV(<<"1","8","0","0","0">>)>>>>,
     difficulty |-> "hard"],
    [task |-> "Browse fifth wheel trailers from dealers with photos.",
     params |-> <<<<<<"q","u","e","r","y">>, StrV(<<"f","i","f","t","h"," ","w","h","e","e","l">>)>>,
                 <<<<"p","u","r","v","e","y","o","r">>, StrV(<<"d","e","a","l","e","r">>)>>,
                 <<<<"h","a","s","P","i","c">>, StrV(<<"1">>)>>>>,
     difficulty |-> "hard"],
    [task |-> "Find pop-up campers under $7,000 with images.",
     params |-> <<<<<<"q","u","e","r","y">>, StrV(<<"p","o","p"," ","u","p"," ","c","a","m","p","e","r">>)>>,
                 <<<<"m","a","x","_","p","r","i","c","e">>, StrV(<<"7","0","0","0">>)>>,
                 <<<<"h","a","s","P","i","c">>, StrV(<<"1">>)>>>>,
     difficulty |-> "hard"],
    [task |-> "Search for toy haulers priced under $45,000 with photos.",
     params |-> <<<<<<"q","u","e","r","y">>, StrV(<<"t","o","y"," ","h","a","u","l","e","r">>)>>,
                 <<<<"h","a","s","P","i","c">>, StrV(<<"1">>)>>,
                 <<<<"m","a","x","_","p","r","i","c","e">>, StrV(<<"4","5","0","0","0">>)>>>>,
     difficulty |-> "hard"],
    [task |-> "Find truck campers under $12,000 sold by owners.",
     params |-> <<<<<<"q","u","e","r","y">>, StrV(<<"t","r","u","c","k"," ","c","a","m","p","e","r">>)>>,
                 <<<<"m","a","x","_","p","r","i","c","e">>, StrV(<<"1","2","0","0","0">>)>>,
                 <<<<"p","u","r","v","e","y","o","r">>, StrV(<<"o","w","n","e","r">>)>>>>,
     difficulty |-> "hard"],
    [task |-> "Find Airstream trailers with images.",
     params |-> <<<<<<"q","u","e","r","y">>, StrV(<<"a","i","r","s","t","r","e","a","m">>)>>,
                 <<<<"h","a","s","P","i","c">>, StrV(<<"1">>)>>>>,
     difficulty |-> "medium"],
    [task |-> "Browse Winnebago motorhomes under $70,000 with photos.",
     params |-> <<<<<<"q","u","e","r","y">>, StrV(<<"w","i","n","n","e","b","a","g","o">>)>>,
                 <<<<"m","a","x","_","p","r","i","c","e">>, StrV(<<"7","0","0","0","0">>)>>,
                 <<<<"h","a","s","P","i","c">>, StrV(<<"1">>)>>>>,
     difficulty |-> "hard"],
    [task |-> "Search for Jayco RVs sold by owners.",
     params |-> <<<<<<"q","u","e","r","y">>, StrV(<<"j","a","y","c","o">>)>>,
                 <<<<"p","u","r","v","e","y","o","r">>, StrV(<<"o","w","n","e","r">>)>>>>,
     difficulty |-> "medium"],
    [task |-> "Find Forest River trailers priced between $12,000 and $30,000.",
     params |-> <<<<<<"q","u","e","r","y">>, StrV(<<"f","o","r","e","s","t"," ","r","i","v","e","r">>)>>,
                 <<<<"m","i","n","_","p","r","i","c","e">>, StrV(<<"1","2","0","0","0">>)>>,
                 <<<<"m","a","x","_","p","r","i","c","e">>, StrV(<<"3","0","0","0","0">>)>>>>,
     difficulty |-> "hard"],
    [task |-> "Browse Keystone RVs under $28,000 with images.",
     params |-> <<<<<<"q","u","e","r","y">>, StrV(<<"k","e","y","s","t","o","n","e">>)>>,
                 <<<<"m","a","x","_","p","r","i","c","e">>, StrV(<<"2","8","0","0","0">>)>>,
                 <<<<"h","a","s","P","i","c">>, StrV(<<"1">>)>>>>,
     difficulty |-> "hard"],
    [task |-> "Find new condition RVs with images.",
     params |-> <<<<<<"c","o","n","d","i","t","i","o","n">>, StrV(<<"1","0">>)>>,
                 <<<<"h","a","s","P","i","c">>, StrV(<<"1">>)>>>>,
     difficulty |-> "medium"],
    [task |-> "Browse travel trailers in excellent condition under $25,000.",
     params |-> <<<<<<"q","u","e","r","y">>, StrV(<<"t","r","a","v","e","l"," ","t","r","a","i","l","e","r">>)>>,
                 <<<<"c","o","n","d","i","t","i","o","n">>, StrV(<<"3","0">>)>>,
                 <<<<"m","a","x","_","p","r","i","c","e">>, StrV(<<"2","5","0","0","0">>)>>>>,
     difficulty |-> "hard"],
    [task |-> "Find motorhomes in like-new condition from owners.",
     params |-> <<<<<<"q","u","e","r","y">>, StrV(<<"m","o","t","o","r","h","o","m","e">>)>>,
                 <<<<"c","o","n","d","i","t","i","o","n">>, StrV(<<"2","0">>)>>,
                 <<<<"p","u","r","v","e","y","o","r">>, StrV(<<"o","w","n","e","r">>)>>>>,
     difficulty |-> "hard"],
    [task |-> "Find RVs under $15,000 sorted by lowest price with images.",
     params |-> <<<<<<"m","a","x","_","p","r","i","c","e">>, StrV(<<"1","5","0","0","0">>)>>,
                 <<<<"s","o","r","t">>, StrV(<<"p","r","i","c","e","a","s","c">>)>>,
                 <<<<"h","a","s","P","i","c">>, StrV(<<"1">>)>>>>,
     difficulty |-> "hard"],
    [task |-> "Browse travel trailers sorted by newest listings.",
     params |-> <<<<<<"q","u","e","r","y">>, StrV(<<"t","r","a","v","e","l"," ","t","r","a","i","l","e","r">>)>>,
                 <<<<"s","o","r","t">>, StrV(<<"d","a","t","e">>)>>>>,
     difficulty |-> "medium"],
    [task |-> "Find Airstream travel trailers in excellent condition under $90,000 with images.",
     params |-> <<<<<<"q","u","e","r","y">>, StrV(<<"a","i","r","s","t","r","e","a","m">>)>>,
                 <<<<"c","o","n","d","i","t","i","o","n">>, StrV(<<"3","0">>)>>,
                 <<<<"m","a","x","_","p","r","i","c","e">>, StrV(<<"9","0","0","0","0">>)>>,
                 <<<<"h","a","s","P","i","c">>, StrV(<<"1">>)>>>>,
     difficulty |-> "hard"],
    [task |-> "Browse diesel motorhomes priced between $40,000 and $120,000.",
     params |-> <<<<<<"q","u","e","r","y">>, StrV(<<"d","i","e","s","e","l"," ","m","o","t","o","r","h","o","m","e">>)>>,
                 <<<<"m","i","n","_","p","r","i","c","e">>, StrV(<<"4","0","0","0","0">>)>>,
                 <<<<"m","a","x","_","p","r","i","c","e">>, StrV(<<"1","2","0","0","0","0">>)>>>>,
     difficulty |-> "hard"],
    [task |-> "Find teardrop trailers under $15,000 sold by owners with photos.",
     params |-> <<<<<<"q","u","e","r","y">>, StrV(<<"t","e","a","r","d","r","o","p">>)>>,
                 <<<<"m","a","x","_","p","r","i","c","e">>, StrV(<<"1","5","0","0","0">>)>>,
                 <<<<"p","u","r","v","e","y","o","r">>, StrV(<<"o","w","n","e","r">>)>>,
                 <<<<"h","a","s","P","i","c">>, StrV(<<"1">>)>>>>,
     difficulty |-> "hard"],
    [task |-> "Search for van conversions under $50,000 with images from owners.",
     params |-> <<<<<<"q","u","e","r","y">>, StrV(<<"v","a","n"," ","c","o","n","v","e","r","s","i","o","n">>)>>,
                 <<<<"m","a","x","_","p","r","i","c","e">>, StrV(<<"5","0","0","0","0">>)>>,
                 <<<<"h","a","s","P","i","c">>, StrV(<<"1">>)>>,
                 <<<<"p","u","r","v","e","y","o","r">>, StrV(<<"o","w","n","e","r">>)>>>>,
     difficulty |-> "hard"],
    [task |-> "Find hybrid travel trailers under $35,000 with photos.",
     params |-> <<<<<<"q","u","e","r","y">>, StrV(<<"h","y","b","r","i","d"," ","t","r","a","i","l","e","r">>)>>,
                 <<<<"m","a","x","_","p","r","i","c","e">>, StrV(<<"3","5","0","0","0">>)>>,
                 <<<<"h","a","s","P","i","c">>, StrV(<<"1">>)>>>>,
     difficulty |-> "hard"]
  >>

boat_tasks ==
  <<
    [task |-> "Find fishing boats with images priced under $18,000.",
     params |-> <<<<<<"q","u","e","r","y">>, StrV(<<"f","i","s","h","i","n","g"," ","b","o","a","t">>)>>,
                 <<<<"h","a","s","P","i","c">>, StrV(<<"1">>)>>,
                 <<<<"m","a","x","_","p","r","i","c","e">>, StrV(<<"1","8","0","0","0">>)>>>>,
     difficulty |-> "hard"],
    [task |-> "Browse sailboats sold by owners with photos.",
     params |-> <<<<<<"q","u","e","r","y">>, StrV(<<"s","a","i","l","b","o","a","t">>)>>,
                 <<<<"p","u","r","v","e","y","o","r">>, StrV(<<"o","w","n","e","r">>)>>,
                 <<<<"h","a","s","P","i","c">>, StrV(<<"1">>)>>>>,
     difficulty |-> "hard"],
    [task |-> "Search for pontoon boats priced between $12,000 and $35,000.",
     params |-> <<<<<<"q","u","e","r","y">>, StrV(<<"p","o","n","t","o","o","n">>)>>,
                 <<<<"m","i","n","_","p","r","i","c","e">>, StrV(<<"1","2","0","0","0">>)>>,
                 <<<<"m","a","x","_","p","r","i","c","e">>, StrV(<<"3","5","0","0","0">>)>>>>,
     difficulty |-> "hard"],
    [task |-> "Find bass boats under $22,000 with images.",
     params |-> <<<<<<"q","u","e","r","y">>, StrV(<<"b","a","s","s"," ","b","o","a","t">>)>>,
                 <<<<"h","a","s","P","i","c">>, StrV(<<"1">>)>>,
                 <<<<"m","a","x","_","p","r","i","c","e">>, StrV(<<"2","2","0","0","0">>)>>>>,
     difficulty |-> "hard"],
    [task |-> "Browse center console boats from dealers.",
     params |-> <<<<<<"q","u","e","r","y">>, StrV(<<"c","e","n","t","e","r"," ","c","o","n","s","o","l","e">>)>>,
                 <<<<"p","u","r","v","e","y","o","r">>, StrV(<<"d","e","a","l","e","r">>)>>>>,
     difficulty |-> "medium"],
    [task |-> "Find ski boats priced under $28,000 with photos.",
     params |-> <<<<<<"q","u","e","r","y">>, StrV(<<"s","k","i"," ","b","o","a","t">>)>>,
                 <<<<"h","a","s","P","i","c">>, StrV(<<"1">>)>>,
                 <<<<"m","a","x","_","p","r","i","c","e">>, StrV(<<"2","8","0","0","0">>)>>>>,
     difficulty |-> "hard"],
    [task |-> "Search for bowrider boats priced between $15,000 and $30,000.",
     params |-> <<<<<<"q","u","e","r","y">>, StrV(<<"b","o","w","r","i","d","e","r">>)>>,
                 <<<<"m","i","n","_","p","r","i","c","e">>, StrV(<<"1","5","0","0","0">>)>>,
                 <<<<"m","a","x","_","p","r","i","c","e">>, StrV(<<"3","0","0","0","0">>)>>>>,
     difficulty |-> "hard"],
    [task |-> "Find cabin cruiser boats with images.",
     params |-> <<<<<<"q","u","e","r","y">>, StrV(<<"c","a","b","i","n"," ","c","r","u","i","s","e","r">>)>>,
                 <<<<"h","a","s","P","i","c">>, StrV(<<"1">>)>>>>,
     difficulty |-> "medium"],
    [task |-> "Find kayaks with photos sorted by lowest price.",
     params |-> <<<<<<"q","u","e","r","y">>, StrV(<<"k","a","y","a","k">>)>>,
                 <<<<"h","a","s","P","i","c">>, StrV(<<"1">>)>>,
                 <<<<"s","o","r","t">>, StrV(<<"p","r","i","c","e","a","s","c">>)>>>>,
     difficulty |-> "medium"],
    [task |-> "Browse canoes under $800 sold by owners.",
     params |-> <<<<<<"q","u","e","r","y">>, StrV(<<"c","a","n","o","e">>)>>,
                 <<<<"m","a","x","_","p","r","i","c","e">>, StrV(<<"8","0","0">>)>>,
                 <<<<"p","u","r","v","e","y","o","r">>, StrV(<<"o","w","n","e","r">>)>>>>,
     difficulty |-> "hard"],
    [task |-> "Find jet skis under $9,000 with images.",
     params |-> <<<<<<"q","u","e","r","y">>, StrV(<<"j","e","t"," ","s","k","i">>)>>,
                 <<<<"h","a","s","P","i","c">>, StrV(<<"1">>)>>,
                 <<<<"m","a","x","_","p","r","i","c","e">>, StrV(<<"9","0","0","0">>)>>>>,
     difficulty |-> "hard"],
    [task |-> "Search for paddleboards with photos from owners.",
     params |-> <<<<<<"q","u","e","r","y">>, StrV(<<"p","a","d","d","l","e","b","o","a","r","d">>)>>,
                 <<<<"h","a","s","P","i","c">>, StrV(<<"1">>)>>,
                 <<<<"p","u","r","v","e","y","o","r">>, StrV(<<"o","w","n","e","r">>)>>>>,
     difficulty |-> "medium"],
    [task |-> "Find Boston Whaler boats with images under $40,000.",
     params |-> <<<<<<"q","u","e","r","y">>, StrV(<<"b","o","s","t","o","n"," ","w","h","a","l","e","r">>)>>,
                 <<<<"h","a","s","P","i","c">>, StrV(<<"1">>)>>,
                 <<<<"m","a","x","_","p","r","i","c","e">>, StrV(<<"4","0","0","0","0">>)>>>>,
     difficulty |-> "hard"],
    [task |-> "Browse Sea Ray boats priced between $25,000 and $55,000.",
     params |-> <<<<<<"q","u","e","r","y">>, StrV(<<"s","e","a"," ","r","a","y">>)>>,
                 <<<<"m","i","n","_","p","r","i","c","e">>, StrV(<<"2","5","0","0","0">>)>>,
                 <<<<"m","a","x","_","p","r","i","c","e">>, StrV(<<"5","5","0","0","0">>)>>>>,
     difficulty |-> "hard"],
    [task |-> "Find Bayliner boats under $16,000 with photos.",
     params |-> <<<<<<"q","u","e","r","y">>, StrV(<<"b","a","y","l","i","n","e","r">>)>>,
                 <<<<"m","a","x","_","p","r","i","c","e">>, StrV(<<"1","6","0","0","0">>)>>,
                 <<<<"h","a","s","P","i","c">>, StrV(<<"1">>)>>>>,
     difficulty |-> "hard"],
    [task |-> "Find boats in excellent condition with images.",
     params |-> <<<<<<"c","o","n","d","i","t","i","o","n">>, StrV(<<"3","0">>)>>,
                 <<<<"h","a","s","P","i","c">>, StrV(<<"1">>)>>>>,
     difficulty |-> "medium"],
    [task |-> "Browse like-new fishing boats under $30,000.",
     params |-> <<<<<<"q","u","e","r","y">>, StrV(<<"f","i","s","h","i","n","g"," ","b","o","a","t">>)>>,
                 <<<<"c","o","n","d","i","t","i","o","n">>, StrV(<<"2","0">>)>>,
                 <<<<"m","a","x","_","p","r","i","c","e">>, StrV(<<"3","0","0","0","0">>)>>>>,
     difficulty |-> "hard"],
    [task |-> "Find boats under $10,000 sorted by lowest price with images.",
     params |-> <<<<<<"m","a","x","_","p","r","i","c","e">>, StrV(<<"1","0","0","0","0">>)>>,
                 <<<<"s","o","r","t">>, StrV(<<"p","r","i","c","e","a","s","c">>)>>,
                 <<<<"h","a","s","P","i","c">>, StrV(<<"1">>)>>>>,
     difficulty |-> "hard"],
    [task |-> "Browse pontoon boats sorted by newest listings.",
     params |-> <<<<<<"q","u","e","r","y">>, StrV(<<"p","o","n","t","o","o","n">>)>>,
                 <<<<"s","o","r","t">>, StrV(<<"d","a","t","e">>)>>>>,
     difficulty |-> "medium"],
    [task |-> "Find aluminum fishing boats under $14,000 with images from owners.",
     params |-> <<<<<<"q","u","e","r","y">>, StrV(<<"a","l","u","m","i","n","u","m"," ","f","i","s","h","i","n","g"," ","b","o","a","t">>)>>,
                 <<<<"h","a","s","P","i","c">>, StrV(<<"1">>)>>,
                 <<<<"m","a","x","_","p","r","i","c","e">>, StrV(<<"1","4","0","0","0">>)>>,
                 <<<<"p","u","r","v","e","y","o","r">>, StrV(<<"o","w","n","e","r">>)>>>>,
     difficulty |-> "hard"],
    [task |-> "Browse Yamaha jet skis under $12,000 sold by owners with photos.",
     params |-> <<<<<<"q","u","e","r","y">>, StrV(<<"y","a","m","a","h","a"," ","j","e","t"," ","s","k","i">>)>>,
                 <<<<"m","a","x","_","p","r","i","c","e">>, StrV(<<"1","2","0","0","0">>)>>,
                 <<<<"p","u","r","v","e","y","o","r">>, StrV(<<"o","w","n","e","r">>)>>,
                 <<<<"h","a","s","P","i","c">>, StrV(<<"1">>)>>>>,
     difficulty |-> "hard"],
    [task |-> "Find boat trailers under $2,500 with images from owners.",
     params |-> <<<<<<"q","u","e","r","y">>, StrV(<<"b","o","a","t"," ","t","r","a","i","l","e","r">>)>>,
                 <<<<"m","a","x","_","p","r","i","c","e">>, StrV(<<"2","5","0","0">>)>>,
                 <<<<"h","a","s","P","i","c">>, StrV(<<"1">>)>>,
                 <<<<"p","u","r","v","e","y","o","r">>, StrV(<<"o","w","n","e","r">>)>>>>,
     difficulty |-> "hard"]
  >>

(***************************************************************************)
(* Category generators: one TaskConfig per table entry, in table order.    *)
(***************************************************************************)
\* variant: the ground-truth URL is built with the motorcycles code
generate_cars_trucks_tasks_mcaCode(r) ==
  [i \in 1..Len(car_tasks) |->
     [task_id |-> "navi_bench/craigslist/cars_trucks/" \o ToString(i - 1),
      task |-> car_tasks[i].task,
      url |-> REGIONS[r].url_prefix \o <<"/","s","e","a","r","c","h","/","c","t","a">>,
      gt_urls |-> <<<<build_url(REGIONS[r].url_prefix, <<"m","c","a">>, car_tasks[i].params)>>>>,
      location |-> REGIONS[r].location,
      timezone |-> REGIONS[r].timezone,
      difficulty |-> car_tasks[i].difficulty,
      l2_category |-> "cars_trucks"]]

generate_cars_trucks_tasks(r) ==
  [i \in 1..Len(car_tasks) |->
     [task_id |-> "navi_bench/craigslist/cars_trucks/" \o ToString(i - 1),
      task |-> car_tasks[i].task,
      url |-> REGIONS[r].url_prefix \o <<"/","s","e","a","r","c","h","/","c","t","a">>,
      gt_urls |-> <<<<build_url(REGIONS[r].url_prefix, <<"c","t","a">>, car_tasks[i].params)>>>>,
      location |-> REGIONS[r].location,
      timezone |-> REGIONS[r].timezone,
      difficulty |-> car_tasks[i].difficulty,
      l2_category |-> "cars_trucks"]]

\* variant: the task_id carries the cars_trucks namespace
generate_motorcycles_tasks_carsId(r) ==
  [i \in 1..Len(motorcycle_tasks) |->
     [task_id |-> "navi_bench/craigslist/cars_trucks/" \o ToString(i - 1),
      task |-> motorcycle_tasks[i].task,
      url |-> REGIONS[r].url_prefix \o <<"/","s","e","a","r","c","h","/","m","c","a">>,
      gt_urls |-> <<<<build_url(REGIONS[r].url_prefix, <<"m","c","a">>, motorcycle_tasks[i].params)>>>>,
      location |-> REGIONS[r].location,
      timezone |-> REGIONS[r].timezone,
      difficulty |-> motorcycle_tasks[i].difficulty,
      l2_category |-> "motorcycles"]]

generate_motorcycles_tasks(r) ==
  [i \in 1..Len(motorcycle_tasks) |->
     [task_id |-> "navi_bench/craigslist/motorcycles/" \o ToString(i - 1),
      task |-> motorcycle_tasks[i].task,
      url |-> REGIONS[r].url_prefix \o <<"/","s","e","a","r","c","h","/","m","c","a">>,
      gt_urls |-> <<<<build_url(REGIONS[r].url_prefix, <<"m","c","a">>, motorcycle_tasks[i].params)>>>>,
      location |-> REGIONS[r].location,
      timezone |-> REGIONS[r].timezone,
      difficulty |-> motorcycle_tasks[i].difficulty,
      l2_category |-> "motorcycles"]]

\* variant: the region configuration is always that of sfbay
generate_rvs_camp_tasks_sfbay(r) ==
  [i \in 1..Len(rv_tasks) |->
     [task_id |-> "navi_bench/craigslist/rvs_camp/" \o ToString(i - 1),
      task |-> rv_tasks[i].task,
      url |-> REGIONS["sfbay"].url_prefix \o <<"/","s","e","a","r","c","h","/","r","v","a">>,
      gt_urls |-> <<<<build_url(REGIONS["sfbay"].url_prefix, <<"r","v","a">>, rv_tasks[i].params)>>>>,
      location |-> REGIONS["sfbay"].location,
      timezone |-> REGIONS["sfbay"].timezone,
      difficulty |-> rv_tasks[i].difficulty,
      l2_category |-> "rvs_camp"]]

generate_rvs_camp_tasks(r) ==
  [i \in 1..Len(rv_tasks) |->
     [task_id |-> "navi_bench/craigslist/rvs_camp/" \o ToString(i - 1),
      task |-> rv_tasks[i].task,
      url |-> REGIONS[r].url_prefix \o <<"/","s","e","a","r","c","h","/","r","v","a">>,
      gt_urls |-> <<<<build_url(REGIONS[r].url_prefix, <<"r","v","a">>, rv_tasks[i].params)>>>>,
      location |-> REGIONS[r].location,
      timezone |-> REGIONS[r].timezone,
      difficulty |-> rv_tasks[i].difficulty,
      l2_category |-> "rvs_camp"]]

\* variant: the loop stops one entry short of the table
generate_boats_tasks_dropLast(r) ==
  [i \in 1..(Len(boat_tasks) - 1) |->
     [task_id |-> "navi_bench/craigslist/boats/" \o ToString(i - 1),
      task |-> boat_tasks[i].task,
      url |-> REGIONS[r].url_prefix \o <<"/","s","e","a","r","c","h","/","b","o","a">>,
      gt_urls |-> <<<<build_url(REGIONS[r].url_prefix, <<"b","o","a">>, boat_tasks[i].params)>>>>,
      location |-> REGIONS[r].location,
      timezone |-> REGIONS[r].timezone,
      difficulty |-> boat_tasks[i].difficulty,
      l2_category |-> "boats"]]

\* variant: the index in task_id counts from one
generate_boats_tasks_oneBased(r) ==
  [i \in 1..Len(boat_tasks) |->
     [task_id |-> "navi_bench/craigslist/boats/" \o ToString(i),
      task |-> boat_tasks[i].task,
      url |-> REGIONS[r].url_prefix \o <<"/","s","e","a","r","c","h","/","b","o","a">>,
      gt_urls |-> <<<<build_url(REGIONS[r].url_prefix, <<"b","o","a">>, boat_tasks[i].params)>>>>,
      location |-> REGIONS[r].location,
      timezone |-> REGIONS[r].timezone,
      difficulty |-> boat_tasks[i].difficulty,
      l2_category |-> "boats"]]

generate_boats_tasks(r) ==
  [i \in 1..Len(boat_tasks) |->
     [task_id |-> "navi_bench/craigslist/boats/" \o ToString(i - 1),
      task |-> boat_tasks[i].task,
      url |-> REGIONS[r].url_prefix \o <<"/","s","e","a","r","c","h","/","b","o","a">>,
      gt_urls |-> <<<<build_url(REGIONS[r].url_prefix, <<"b","o","a">>, boat_tasks[i].params)>>>>,
      location |-> REGIONS[r].location,
      timezone |-> REGIONS[r].timezone,
      difficulty |-> boat_tasks[i].difficulty,
      l2_category |-> "boats"]]

(***************************************************************************)
(* CSV export.  task_generation_config_json is kept as the dictionary that *)
(* json.dumps receives.                                                    *)
(***************************************************************************)
\* variant: suggested_hint is left empty and suggested_max_steps is counted
\* from the ground-truth URLs
task_to_csv_row_blankHint(task) ==
  [task_id |-> task.task_id,
   task_generation_config_json |->
     [_target_ |-> "navi_bench.craigslist.craigslist_url_match.generate_task_config",
      url |-> task.url,
      task |-> task.task,
      location |-> task.location,
      timezone |-> task.timezone,
      gt_urls |-> task.gt_urls],
   env |-> "real",
   domain |-> "craigslist",
   l1_category |-> "marketplace",
   l2_category |-> task.l2_category,
   suggested_difficulty |-> task.difficulty,
   suggested_hint |-> "",
   suggested_max_steps |-> Len(task.gt_urls),
   suggested_split |-> "validation",
   metadata_json |-> "null"]

\* variant: the category and difficulty columns are exchanged
task_to_csv_row_swapped(task) ==
  [task_id |-> task.task_id,
   task_generation_config_json |->
     [_target_ |-> "navi_bench.craigslist.craigslist_url_match.generate_task_config",
      url |-> task.url,
      task |-> task.task,
      location |-> task.location,
      timezone |-> task.timezone,
      gt_urls |-> task.gt_urls],
   env |-> "real",
   domain |-> "craigslist",
   l1_category |-> "marketplace",
   l2_category |-> task.difficulty,
   suggested_difficulty |-> task.l2_category,
   suggested_hint |-> "null",
   suggested_max_steps |-> 0,
   suggested_split |-> "validation",
   metadata_json |-> "null"]

task_to_csv_row(task) ==
  [task_id |-> task.task_id,
   task_generation_config_json |->
     [_target_ |-> "navi_bench.craigslist.craigslist_url_match.generate_task_config",
      url |-> task.url,
      task |-> task.task,
      location |-> task.location,
      timezone |-> task.timezone,
      gt_urls |-> task.gt_urls],
   env |-> "real",
   domain |-> "craigslist",
   l1_category |-> "marketplace",
   l2_category |-> task.l2_category,
   suggested_difficulty |-> task.difficulty,
   suggested_hint |-> "null",
   suggested_max_steps |-> 0,
   suggested_split |-> "validation",
   metadata_json |-> "null"]

(***************************************************************************)
(* main                                                                    *)
(***************************************************************************)
\* the category names of main's generators list, in order
generators == <<"cars_trucks", "motorcycles", "rvs_camp", "boats">>

\* the function paired with a category name in main's generators list
generator_func(category_name, r) ==
  CASE category_name = "cars_trucks" -> generate_cars_trucks_tasks(r)
    [] category_name = "motorcycles" -> generate_motorcycles_tasks(r)
    [] category_name = "rvs_camp" -> generate_rvs_camp_tasks(r)
    [] category_name = "boats" -> generate_boats_tasks(r)

fieldnames ==
  <<"task_id", "task_generation_config_json", "env", "domain",
    "l1_category", "l2_category", "suggested_difficulty",
    "suggested_hint", "suggested_max_steps", "suggested_split", "metadata_json">>

\* values of --region tried: the five configured keys and one that is not
RegionArgs == DOMAIN REGIONS \cup {"portland"}

UrlIdle ==
  /\ u_pc = "idle"
  /\ base_url = <<>>
  /\ category_code = <<>>
  /\ params = <<>>
  /\ url = <<>>
  /\ encoded_params = <<>>
  /\ u_i = 0

MainIdle ==
  /\ pc = "idle"
  /\ argv_region = "sfbay"
  /\ region = "none"
  /\ gen_i = 0
  /\ all_tasks = <<>>
  /\ file_open = FALSE
  /\ file_header = <<>>
  /\ file_rows = <<>>
  /\ task_i = 0

Init ==
  /\ pc = "parse_args"
  /\ argv_region \in RegionArgs
  /\ region = "none"
  /\ gen_i = 0
  /\ all_tasks = <<>>
  /\ file_open = FALSE
  /\ file_header = <<>>
  /\ file_rows = <<>>
  /\ task_i = 0
  /\ UrlIdle

\* variant: a --region outside the table falls back to the default region
ParseArgs_fallback ==
  /\ pc = "parse_args"
  /\ region' = IF argv_region \in DOMAIN REGIONS THEN argv_region ELSE "sfbay"
  /\ gen_i' = 1
  /\ pc' = "generate"
  /\ UNCHANGED <<argv_region, all_tasks, file_open, file_header, file_rows, task_i>>
  /\ UNCHANGED url_vars

\* parser.parse_args(): --region is restricted to choices=list(REGIONS.keys())
ParseArgs ==
  /\ pc = "parse_args"
  /\ IF argv_region \in DOMAIN REGIONS
     THEN /\ region' = argv_region
          /\ gen_i' = 1
          /\ pc' = "generate"
     ELSE /\ pc' = "parser_error"
          /\ UNCHANGED <<region, gen_i>>
  /\ UNCHANGED <<argv_region, all_tasks, file_open, file_header, file_rows, task_i>>
  /\ UNCHANGED url_vars

\* one iteration of: for category_name, generator_func in generators
RunGenerator ==
  /\ pc = "generate"
  /\ gen_i <= Len(generators)
  /\ all_tasks' = all_tasks \o generator_func(generators[gen_i], region)
  /\ gen_i' = gen_i + 1
  /\ UNCHANGED <<pc, argv_region, region, file_open, file_header, file_rows, task_i>>
  /\ UNCHANGED url_vars

\* assert len(all_tasks) == 100
CheckCount ==
  /\ pc = "generate"
  /\ gen_i > Len(generators)
  /\ pc' = IF Len(all_tasks) = 100 THEN "open" ELSE "assertion_error"
  /\ UNCHANGED <<argv_region, region, gen_i, all_tasks, file_open, file_header, file_rows, task_i>>
  /\ UNCHANGED url_vars

\* variant: the file is opened and its header written before the generators
\* have run and the count has been checked
OpenOutput_early ==
  /\ pc \in {"generate", "open"}
  /\ file_open = FALSE
  /\ file_open' = TRUE
  /\ file_header' = fieldnames
  /\ task_i' = 1
  /\ pc' = IF pc = "open" THEN "write" ELSE pc
  /\ UNCHANGED <<argv_region, region, gen_i, all_tasks, file_rows>>
  /\ UNCHANGED url_vars

\* open(args.output, "w") and writer.writeheader()
OpenOutput ==
  /\ pc = "open"
  /\ file_open' = TRUE
  /\ file_header' = fieldnames
  /\ task_i' = 1
  /\ pc' = "write"
  /\ UNCHANGED <<argv_region, region, gen_i, all_tasks, file_rows>>
  /\ UNCHANGED url_vars

\* one iteration of: for task in all_tasks: writer.writerow(task_to_csv_row(task))
WriteRow ==
  /\ pc = "write"
  /\ task_i <= Len(all_tasks)
  /\ file_rows' = Append(file_rows, task_to_csv_row(all_tasks[task_i]))
  /\ task_i' = task_i + 1
  /\ UNCHANGED <<pc, argv_region, region, gen_i, all_tasks, file_open, file_header>>
  /\ UNCHANGED url_vars

\* the with block ends; the summary that follows only prints
Finish ==
  /\ pc = "write"
  /\ task_i > Len(all_tasks)
  /\ pc' = "done"
  /\ UNCHANGED <<argv_region, region, gen_i, all_tasks, file_open, file_header, file_rows, task_i>>
  /\ UNCHANGED url_vars

Next == ParseArgs \/ RunGenerator \/ CheckCount \/ OpenOutput \/ WriteRow \/ Finish

Spec == Init /\ [][Next]_vars

(***************************************************************************)
(* build_url called on its own, on arguments drawn from bounded sets.      *)
(***************************************************************************)
MaxParams == 2

MaxStrLen == 1

MaxListLen == 2

SeqsUpTo(S, n) == UNION {[1..k -> S] : k \in 0..n}

\* a letter and the space
Alphabet == {"a", " "}

\* a multi-word free-text value of the task tables, and a value holding the
\* characters that delimit a query string
SampleStrings ==
  {<<"c","l","a","s","s"," ","a"," ","m","o","t","o","r","h","o","m","e">>,
   <<"a","&","b","=","c","?","d","#","e">>}

Numbers == {15}

Scalars ==
  {StrV(s) : s \in SeqsUpTo(Alphabet, MaxStrLen) \cup SampleStrings} \cup {IntV(n) : n \in Numbers}

ListElems == {StrV(<<"1">>), IntV(2)}

Values == Scalars \cup {ListV(l) : l \in SeqsUpTo(ListElems, MaxListLen)}

Keys ==
  {<<"q","u","e","r","y">>,
   <<"a","u","t","o","_","m","a","k","e","_","m","o","d","e","l">>,
   <<"h","a","s","P","i","c">>,
   <<"s","o","r","t">>}

\* the key orders of a dict: insertion order, no key twice
KeyOrders == {ks \in SeqsUpTo(Keys, MaxParams) : \A i, j \in 1..Len(ks) : ks[i] = ks[j] => i = j}

\* <<base_url, category_code>> arguments
Targets ==
  {<<REGIONS.sfbay.url_prefix, <<"c","t","a">>>>,
   <<<<"h","t","t","p",":","/","/","x">>, <<"b","o","a">>>>}

InitUrl ==
  /\ MainIdle
  /\ u_pc = "call"
  /\ \E tg \in Targets : base_url = tg[1] /\ category_code = tg[2]
  /\ \E ks \in KeyOrders : \E vs \in [1..Len(ks) -> Values] :
       params = [i \in 1..Len(ks) |-> <<ks[i], vs[i]>>]
  /\ url = <<>>
  /\ encoded_params = <<>>
  /\ u_i = 0

\* variant: the query string is built without the test "if params"
UrlEnter_noEmptyCheck ==
  /\ u_pc = "call"
  /\ url' = UrlStart(base_url, category_code)
  /\ u_pc' = "loop"
  /\ u_i' = 1
  /\ UNCHANGED <<base_url, category_code, params, encoded_params>>
  /\ UNCHANGED main_vars

\* url = f"{base_url}/search/{category_code}"; if params: encoded_params = []
UrlEnter ==
  /\ u_pc = "call"
  /\ url' = UrlStart(base_url, category_code)
  /\ IF params # <<>>
     THEN u_pc' = "loop" /\ u_i' = 1
     ELSE u_pc' = "fragment" /\ u_i' = u_i
  /\ UNCHANGED <<base_url, category_code, params, encoded_params>>
  /\ UNCHANGED main_vars

\* variant: the pairs of an item are put in front of the earlier ones
UrlEncodeItem_prepend ==
  /\ u_pc = "loop"
  /\ u_i <= Len(params)
  /\ encoded_params' = EncodeItem(params[u_i][1], params[u_i][2]) \o encoded_params
  /\ u_i' = u_i + 1
  /\ UNCHANGED <<u_pc, base_url, category_code, params, url>>
  /\ UNCHANGED main_vars

\* one iteration of: for key, value in params.items()
UrlEncodeItem ==
  /\ u_pc = "loop"
  /\ u_i <= Len(params)
  /\ encoded_params' = encoded_params \o EncodeItem(params[u_i][1], params[u_i][2])
  /\ u_i' = u_i + 1
  /\ UNCHANGED <<u_pc, base_url, category_code, params, url>>
  /\ UNCHANGED main_vars

\* variant: the "?" is added only when at least one pair was emitted
UrlJoin_onlyIfPairs ==
  /\ u_pc = "loop"
  /\ u_i > Len(params)
  /\ url' = IF encoded_params # <<>> THEN url \o UrlQuery(encoded_params) ELSE url
  /\ u_pc' = "fragment"
  /\ UNCHANGED <<base_url, category_code, params, encoded_params, u_i>>
  /\ UNCHANGED main_vars

\* url += "?" + "&".join(encoded_params)
UrlJoin ==
  /\ u_pc = "loop"
  /\ u_i > Len(params)
  /\ url' = url \o UrlQuery(encoded_params)
  /\ u_pc' = "fragment"
  /\ UNCHANGED <<base_url, category_code, params, encoded_params, u_i>>
  /\ UNCHANGED main_vars

\* variant: the fragment is appended only when there is no query string
UrlReturn_fragmentIfNoQuery ==
  /\ u_pc = "fragment"
  /\ url' = IF params # <<>> THEN url ELSE url \o UrlFragment
  /\ u_pc' = "return"
  /\ UNCHANGED <<base_url, category_code, params, encoded_params, u_i>>
  /\ UNCHANGED main_vars

\* url += "#search=2~gallery~0"; return url
UrlReturn ==
  /\ u_pc = "fragment"
  /\ url' = url \o UrlFragment
  /\ u_pc' = "return"
  /\ UNCHANGED <<base_url, category_code, params, encoded_params, u_i>>
  /\ UNCHANGED main_vars

NextUrl == UrlEnter \/ UrlEncodeItem \/ UrlJoin \/ UrlReturn

SpecUrl == InitUrl /\ [][NextUrl]_vars

(***************************************************************************)
(* Agreement of the two renderings of build_url: the stepwise call returns *)
(* what the operator used by the generators returns.                       *)
(***************************************************************************)
StepwiseAgrees == u_pc = "return" => url = build_url(base_url, category_code, params)

(***************************************************************************)
(* Helpers of the properties.                                              *)
(***************************************************************************)
IsPrefix(p, s) == Len(p) <= Len(s) /\ SubSeq(s, 1, Len(p)) = p

IsSuffix(p, s) == Len(p) <= Len(s) /\ SubSeq(s, Len(s) - Len(p) + 1, Len(s)) = p

Contains(s, c) == \E i \in 1..Len(s) : s[i] = c

CountOf(tasks, category) == Cardinality({i \in 1..Len(tasks) : tasks[i].l2_category = category})

GenerationOver == pc \in {"generate", "open", "write", "done", "assertion_error"} /\ gen_i > Len(generators)

(***************************************************************************)
(* C1: for each configured region, the four generators called in main's    *)
(* order yield exactly 100 tasks: 30 cars_trucks, 25 motorcycles,          *)
(* 23 rvs_camp and 22 boats, and the count assertion never fails.          *)
(***************************************************************************)
C1_TaskCounts ==
  /\ pc # "assertion_error"
  /\ GenerationOver =>
       /\ Len(all_tasks) = 100
       /\ CountOf(all_tasks, "cars_trucks") = 30
       /\ CountOf(all_tasks, "motorcycles") = 25
       /\ CountOf(all_tasks, "rvs_camp") = 23
       /\ CountOf(all_tasks, "boats") = 22

C1_Witness == pc = "open" /\ region = "newyork" /\ Len(all_tasks) = 100

(***************************************************************************)
(* C2: no two rows written to the output have the same task_id.            *)
(***************************************************************************)
C2_UniqueTaskIds ==
  \A i, j \in 1..Len(file_rows) : file_rows[i].task_id = file_rows[j].task_id => i = j

C2_Witness == pc = "done" /\ region = "losangeles" /\ Len(file_rows) = 100

(***************************************************************************)
(* C3: build_url called with an empty mapping returns exactly              *)
(* base + "/search/" + code + "#search=2~gallery~0", with no "?".          *)
(***************************************************************************)
C3_EmptyParams ==
  (u_pc = "return" /\ params = <<>>) =>
    /\ url = base_url \o <<"/","s","e","a","r","c","h","/">> \o category_code
               \o <<"#","s","e","a","r","c","h","=","2","~","g","a","l","l","e","r","y","~","0">>
    /\ ~Contains(url, "?")

C3_Witness ==
  /\ u_pc = "return"
  /\ params = <<>>
  /\ url = <<"h","t","t","p",":","/","/","x","/","s","e","a","r","c","h","/","b","o","a","#","s","e","a","r","c","h","=","2","~","g","a","l","l","e","r","y","~","0">>

(***************************************************************************)
(* Helpers of the build_url properties.                                    *)
(***************************************************************************)
FreeTextKeys ==
  {<<"q","u","e","r","y">>, <<"a","u","t","o","_","m","a","k","e","_","m","o","d","e","l">>}

\* the loop of build_url is about to process the item params[u_i]
AtItem == u_pc = "loop" /\ u_i <= Len(params)

\* the step appends exactly the pairs ps to encoded_params
Emits(ps) == encoded_params' = encoded_params \o ps

HexValue(c) == (CHOOSE i \in 1..Len(HexDigits) : HexDigits[i] = c) - 1

\* the text a percent-encoded text stands for
RECURSIVE PercentDecode(_)
PercentDecode(e) ==
  IF e = <<>> THEN <<>>
  ELSE IF e[1] = "%" /\ Len(e) >= 3
  THEN <<AsciiChars[HexValue(e[2]) * 16 + HexValue(e[3]) - 31]>> \o PercentDecode(SubSeq(e, 4, Len(e)))
  ELSE <<e[1]>> \o PercentDecode(Tail(e))

\* the string form of a scalar, character for character
ScalarText(v) == IF v.t = "str" THEN v.s ELSE IntToStr(v.n)

(***************************************************************************)
(* C4: for a parameter named query or auto_make_model the loop emits one   *)
(* pair name=E, where E is the percent-encoding of the value's string      *)
(* form: E decodes to that string form and holds no literal space.         *)
(***************************************************************************)
C4_FreeTextEncoded ==
  [][(AtItem /\ params[u_i][1] \in FreeTextKeys) =>
       LET key == params[u_i][1]
           value == params[u_i][2]
           n == Len(encoded_params)
       IN /\ Len(encoded_params') = n + 1
          /\ SubSeq(encoded_params', 1, n) = encoded_params
          /\ IsPrefix(key \o <<"=">>, encoded_params'[n + 1])
          /\ LET e == SubSeq(encoded_params'[n + 1], Len(key) + 2, Len(encoded_params'[n + 1]))
             IN /\ ~Contains(e, " ")
                /\ PercentDecode(e) = str(value)]_vars

C4_Witness ==
  /\ u_pc = "return"
  /\ params = <<<<<<"a","u","t","o","_","m","a","k","e","_","m","o","d","e","l">>,
                  StrV(<<"c","l","a","s","s"," ","a"," ","m","o","t","o","r","h","o","m","e">>)>>>>
  /\ encoded_params = <<<<"a","u","t","o","_","m","a","k","e","_","m","o","d","e","l","=","c","l","a","s","s","%","2","0","a","%","2","0","m","o","t","o","r","h","o","m","e">>>>
  /\ ~Contains(url, " ")

(***************************************************************************)
(* C5 as stated: for a parameter whose value is a list, whatever its name, *)
(* the loop emits one name=value pair per element, in list order, each     *)
(* element verbatim.                                                       *)
(***************************************************************************)
C5_AnyListExpanded ==
  [][(AtItem /\ params[u_i][2].t = "list") =>
       LET key == params[u_i][1]
           value == params[u_i][2]
       IN Emits([j \in 1..Len(value.l) |-> key \o <<"=">> \o ScalarText(value.l[j])])]_vars

(***************************************************************************)
(* C5 amended: for a parameter whose value is a list and whose name is     *)
(* neither query nor auto_make_model, the loop emits one name=value pair   *)
(* per element, in list order, each element verbatim.                      *)
(***************************************************************************)
C5_OtherListExpanded ==
  [][(AtItem /\ params[u_i][2].t = "list" /\ params[u_i][1] \notin FreeTextKeys) =>
       LET key == params[u_i][1]
           value == params[u_i][2]
       IN Emits([j \in 1..Len(value.l) |-> key \o <<"=">> \o ScalarText(value.l[j])])]_vars

C5_Witness ==
  /\ u_pc = "return"
  /\ params = <<<<<<"h","a","s","P","i","c">>, ListV(<<StrV(<<"1">>), IntV(2)>>)>>>>
  /\ encoded_params = <<<<"h","a","s","P","i","c","=","1">>, <<"h","a","s","P","i","c","=","2">>>>

(***************************************************************************)
(* C6: for a non-empty mapping the query string is "?" followed by the     *)
(* emitted pairs joined with "&", and the pairs appear in the mapping's    *)
(* insertion order: every pair of an earlier key precedes every pair of a  *)
(* later key; {hasPic: ["1"], sort: "a"} gives hasPic=1&sort=a.            *)
(***************************************************************************)
\* the position in params of the key a pair starts with (0 if none)
KeyIndexOf(pair) ==
  IF \E i \in 1..Len(params) : IsPrefix(params[i][1] \o <<"=">>, pair)
  THEN CHOOSE i \in 1..Len(params) : IsPrefix(params[i][1] \o <<"=">>, pair)
  ELSE 0

C6_InsertionOrder ==
  (u_pc = "return" /\ params # <<>>) =>
    /\ url = base_url \o <<"/","s","e","a","r","c","h","/">> \o category_code \o <<"?">>
               \o Join(<<"&">>, encoded_params)
               \o <<"#","s","e","a","r","c","h","=","2","~","g","a","l","l","e","r","y","~","0">>
    /\ \A a, b \in 1..Len(encoded_params) :
         /\ KeyIndexOf(encoded_params[a]) # 0
         /\ a < b => KeyIndexOf(encoded_params[a]) <= KeyIndexOf(encoded_params[b])
    /\ \A i \in 1..Len(params) :
         (params[i][2].t # "list" \/ params[i][2].l # <<>>) =>
           \E a \in 1..Len(encoded_params) : KeyIndexOf(encoded_params[a]) = i
    /\ params = <<<<<<"h","a","s","P","i","c">>, ListV(<<StrV(<<"1">>)>>)>>, <<<<"s","o","r","t">>, StrV(<<"a">>)>>>> =>
         SubSeq(url, Len(base_url) + Len(category_code) + 9, Len(url) - 19)
           = <<"?","h","a","s","P","i","c","=","1","&","s","o","r","t","=","a">>

C6_Witness ==
  /\ u_pc = "return"
  /\ params = <<<<<<"h","a","s","P","i","c">>, ListV(<<StrV(<<"1">>)>>)>>, <<<<"s","o","r","t">>, StrV(<<"a">>)>>>>
  /\ encoded_params = <<<<"h","a","s","P","i","c","=","1">>, <<"s","o","r","t","=","a">>>>

(***************************************************************************)
(* C7: for a scalar parameter named neither query nor auto_make_model the  *)
(* loop emits name=S, S being the value's string form with no character    *)
(* changed: a space or reserved character stays literal.                   *)
(***************************************************************************)
C7_ScalarVerbatim ==
  [][(AtItem /\ params[u_i][1] \notin FreeTextKeys /\ params[u_i][2].t \in {"str", "int"}) =>
       Emits(<<params[u_i][1] \o <<"=">> \o ScalarText(params[u_i][2])>>)]_vars

C7_Witness ==
  /\ u_pc = "return"
  /\ params = <<<<<<"s","o","r","t">>, StrV(<<"a","&","b","=","c","?","d","#","e">>)>>,
                <<<<"h","a","s","P","i","c">>, StrV(<<" ">>)>>>>
  /\ encoded_params = <<<<"s","o","r","t","=","a","&","b","=","c","?","d","#","e">>, <<"h","a","s","P","i","c","="," ">>>>

(***************************************************************************)
(* C8: whatever the mapping, the returned string ends with                 *)
(* "#search=2~gallery~0" and has the form                                  *)
(* base/search/code[?pairs]#search=2~gallery~0.                            *)
(***************************************************************************)
C8_FragmentAlways ==
  u_pc = "return" =>
    LET head == base_url \o <<"/","s","e","a","r","c","h","/">> \o category_code
        fragment == <<"#","s","e","a","r","c","h","=","2","~","g","a","l","l","e","r","y","~","0">>
    IN /\ IsPrefix(head, url)
       /\ IsSuffix(fragment, url)
       /\ Len(url) >= Len(head) + Len(fragment)
       /\ Len(url) > Len(head) + Len(fragment) => url[Len(head) + 1] = "?"

C8_Witness ==
  /\ u_pc = "return"
  /\ params # <<>>
  /\ Len(encoded_params) = 2
  /\ IsSuffix(<<"#","s","e","a","r","c","h","=","2","~","g","a","l","l","e","r","y","~","0">>, url)

(***************************************************************************)
(* C9: for each configured region, the url and every ground-truth URL of   *)
(* every generated task begin with the region's url_prefix, and the task's *)
(* location and timezone are the region's.                                 *)
(***************************************************************************)
C9_RegionOfTasks ==
  \A i \in 1..Len(all_tasks) :
    LET t == all_tasks[i] IN
      /\ IsPrefix(REGIONS[region].url_prefix, t.url)
      /\ \A a \in 1..Len(t.gt_urls) : \A b \in 1..Len(t.gt_urls[a]) :
           IsPrefix(REGIONS[region].url_prefix, t.gt_urls[a][b])
      /\ t.location = REGIONS[region].location
      /\ t.timezone = REGIONS[region].timezone

C9_Witness ==
  /\ region = "seattle"
  /\ Len(all_tasks) = 100
  /\ IsPrefix(<<"h","t","t","p","s",":","/","/","s","e","a","t","t","l","e",".","c","r","a","i","g","s","l","i","s","t",".","o","r","g","/","s","e","a","r","c","h","/","r","v","a","?">>,
              all_tasks[56].gt_urls[1][1])
  /\ all_tasks[56].timezone = "America/Los_Angeles"

(***************************************************************************)
(* C10: every row of the output has suggested_difficulty among easy,       *)
(* medium, hard and l2_category among the four category names.             *)
(***************************************************************************)
C10_RowDomains ==
  \A i \in 1..Len(file_rows) :
    /\ file_rows[i].suggested_difficulty \in {"easy", "medium", "hard"}
    /\ file_rows[i].l2_category \in {"cars_trucks", "motorcycles", "rvs_camp", "boats"}

C10_Witness ==
  /\ pc = "done"
  /\ Len(file_rows) = 100
  /\ \E i \in 1..Len(file_rows) : file_rows[i].suggested_difficulty = "easy"
  /\ file_rows[100].l2_category = "boats"

(***************************************************************************)
(* C11: the output file is opened and written only after the check that    *)
(* the total count is 100 has passed: while the count is not 100, and in   *)
(* a run that stops at the assertion, the file is neither created nor      *)
(* written, not even its header.                                           *)
(***************************************************************************)
FileTouched == file_open \/ file_header # <<>> \/ file_rows # <<>>

C11_WriteAfterCheck ==
  /\ FileTouched => (pc \in {"write", "done"} /\ gen_i > Len(generators) /\ Len(all_tasks) = 100)
  /\ (Len(all_tasks) # 100 \/ pc = "assertion_error") => ~FileTouched

C11_Witness ==
  /\ pc = "write"
  /\ file_open
  /\ file_header = fieldnames
  /\ file_rows = <<>>
  /\ Len(all_tasks) = 100

(***************************************************************************)
(* C12: a --region that is not one of the five configured keys is rejected *)
(* by the argument parser before any work begins: no generator is called   *)
(* and no output file is opened or written in such a run.                  *)
(***************************************************************************)
C12_InvalidRegionRejected ==
  argv_region \notin {"sfbay", "losangeles", "newyork", "seattle", "chicago"} =>
    /\ pc \in {"parse_args", "parser_error"}
    /\ region = "none"
    /\ gen_i = 0
    /\ all_tasks = <<>>
    /\ ~FileTouched

C12_Witness == pc = "parser_error" /\ argv_region = "portland" /\ all_tasks = <<>> /\ ~file_open

(***************************************************************************)
(* C14: every written row has suggested_hint "null", metadata_json "null", *)
(* suggested_max_steps 0, suggested_split "validation", env "real", domain *)
(* "craigslist" and l1_category "marketplace"; its task_id, l2_category    *)
(* and suggested_difficulty are those of its task; one row per task.       *)
(***************************************************************************)
C14_RowShape ==
  /\ Len(file_rows) <= Len(all_tasks)
  /\ pc = "write" => Len(file_rows) = task_i - 1
  /\ pc = "done" => Len(file_rows) = Len(all_tasks)
  /\ \A i \in 1..Len(file_rows) :
       /\ file_rows[i].suggested_hint = "null"
       /\ file_rows[i].metadata_json = "null"
       /\ file_rows[i].suggested_max_steps = 0
       /\ file_rows[i].suggested_split = "validation"
       /\ file_rows[i].env = "real"
       /\ file_rows[i].domain = "craigslist"
       /\ file_rows[i].l1_category = "marketplace"
       /\ file_rows[i].task_id = all_tasks[i].task_id
       /\ file_rows[i].l2_category = all_tasks[i].l2_category
       /\ file_rows[i].suggested_difficulty = all_tasks[i].difficulty

C14_Witness ==
  /\ pc = "done"
  /\ region = "chicago"
  /\ Len(file_rows) = 100
  /\ file_rows[31].task_id = "navi_bench/craigslist/motorcycles/0"
  /\ file_rows[31].suggested_hint = "null"

(***************************************************************************)
(* C15: the gt_urls of every task is a sequence of one sequence of one     *)
(* URL, and that URL is build_url(region url_prefix, code, the task's own  *)
(* filter mapping), with code cta for cars_trucks, mca for motorcycles,    *)
(* rva for rvs_camp and boa for boats.                                     *)
(***************************************************************************)
\* the number of tasks of the category of all_tasks[p] that precede it
IndexInCategory(p) ==
  Cardinality({q \in 1..(p - 1) : all_tasks[q].l2_category = all_tasks[p].l2_category})

CodeOfCategory(category) ==
  CASE category = "cars_trucks" -> <<"c","t","a">>
    [] category = "motorcycles" -> <<"m","c","a">>
    [] category = "rvs_camp" -> <<"r","v","a">>
    [] category = "boats" -> <<"b","o","a">>

TableOfCategory(category) ==
  CASE category = "cars_trucks" -> car_tasks
    [] category = "motorcycles" -> motorcycle_tasks
    [] category = "rvs_camp" -> rv_tasks
    [] category = "boats" -> boat_tasks

C15_GroundTruthUrl ==
  \A p \in 1..Len(all_tasks) :
    LET t == all_tasks[p] IN
      /\ Len(t.gt_urls) = 1
      /\ Len(t.gt_urls[1]) = 1
      /\ t.gt_urls[1][1] =
           build_url(REGIONS[region].url_prefix, CodeOfCategory(t.l2_category),
                     TableOfCategory(t.l2_category)[IndexInCategory(p) + 1].params)

C15_Witness ==
  /\ region = "sfbay"
  /\ Len(all_tasks) = 100
  /\ all_tasks[2].gt_urls =
       <<<<<<"h","t","t","p","s",":","/","/","s","f","b","a","y",".","c","r","a","i","g","s","l","i","s","t",".","o","r","g","/","s","e","a","r","c","h","/","c","t","a","?","a","u","t","o","_","m","a","k","e","_","m","o","d","e","l","=","h","o","n","d","a","%","2","0","a","c","c","o","r","d","&","p","u","r","v","e","y","o","r","=","o","w","n","e","r","#","s","e","a","r","c","h","=","2","~","g","a","l","l","e","r","y","~","0">>>>>>

(***************************************************************************)
(* C16: each generator returns its tasks in the order of its literal list, *)
(* the task at zero-based position i of a category having task_id          *)
(* "navi_bench/craigslist/<category>/<i>", and the output lists the        *)
(* categories in the order cars_trucks, motorcycles, rvs_camp, boats.      *)
(***************************************************************************)
CategoryRank(category) ==
  CHOOSE k \in 1..4 : <<"cars_trucks", "motorcycles", "rvs_camp", "boats">>[k] = category

C16_OrderAndIds ==
  /\ \A p \in 1..Len(all_tasks) :
       LET t == all_tasks[p] IN
         /\ t.task_id = "navi_bench/craigslist/" \o t.l2_category \o "/" \o ToString(IndexInCategory(p))
         /\ t.task = TableOfCategory(t.l2_category)[IndexInCategory(p) + 1].task
  /\ \A p, q \in 1..Len(all_tasks) :
       p < q => CategoryRank(all_tasks[p].l2_category) <= CategoryRank(all_tasks[q].l2_category)
  /\ \A p \in 1..Len(file_rows) : file_rows[p].task_id = all_tasks[p].task_id

C16_Witness ==
  /\ pc = "done"
  /\ all_tasks[1].task_id = "navi_bench/craigslist/cars_trucks/0"
  /\ all_tasks[55].task_id = "navi_bench/craigslist/motorcycles/24"
  /\ all_tasks[56].task_id = "navi_bench/craigslist/rvs_camp/0"
  /\ file_rows[100].task_id = "navi_bench/craigslist/boats/21"

(***************************************************************************)
(* Helpers of C17 and C18.                                                 *)
(***************************************************************************)
\* the returned URL has a "?" right after base/search/code
HasSeparator ==
  /\ Len(url) > Len(base_url) + 8 + Len(category_code)
  /\ url[Len(base_url) + 8 + Len(category_code) + 1] = "?"

\* base/search/code, then middle, then the fragment
UrlWith(middle) ==
  base_url \o <<"/","s","e","a","r","c","h","/">> \o category_code \o middle
    \o <<"#","s","e","a","r","c","h","=","2","~","g","a","l","l","e","r","y","~","0">>

OnlyEmptyLists ==
  params # <<>> /\ \A i \in 1..Len(params) : params[i][2].t = "list" /\ params[i][2].l = <<>>

Occurrences(s, c) == Cardinality({i \in 1..Len(s) : s[i] = c})

(***************************************************************************)
(* C17 as stated: the returned URL contains the "?" separator if and only  *)
(* if at least one pair is emitted; a mapping whose only values are empty  *)
(* lists emits no pair and yields the URL of the empty mapping.            *)
(***************************************************************************)
C17_SeparatorIffPairs ==
  u_pc = "return" =>
    /\ HasSeparator <=> encoded_params # <<>>
    /\ OnlyEmptyLists => (encoded_params = <<>> /\ url = UrlWith(<<>>))

(***************************************************************************)
(* C17 amended: the returned URL contains the "?" separator if and only if *)
(* the mapping is non-empty; a mapping whose only values are empty lists   *)
(* under names other than query and auto_make_model emits no pair and      *)
(* yields base/search/code?#search=2~gallery~0, the URL of the empty       *)
(* mapping with a bare "?" before the fragment.                            *)
(***************************************************************************)
C17_SeparatorIffNonEmpty ==
  u_pc = "return" =>
    /\ HasSeparator <=> params # <<>>
    /\ (OnlyEmptyLists /\ \A i \in 1..Len(params) : params[i][1] \notin FreeTextKeys) =>
         (encoded_params = <<>> /\ url = UrlWith(<<"?">>))

C17_Witness ==
  /\ u_pc = "return"
  /\ params = <<<<<<"s","o","r","t">>, ListV(<<>>)>>, <<<<"h","a","s","P","i","c">>, ListV(<<>>)>>>>
  /\ encoded_params = <<>>
  /\ url = <<"h","t","t","p",":","/","/","x","/","s","e","a","r","c","h","/","b","o","a","?","#","s","e","a","r","c","h","=","2","~","g","a","l","l","e","r","y","~","0">>

(***************************************************************************)
(* C18: the encoded text emitted for a query or auto_make_model value      *)
(* holds no space, "&", "=", "?" or "#", so a free-text value neither adds *)
(* a pair nor starts the fragment early: with free-text parameters only,   *)
(* the URL has one "&" less than it has parameters, one "=" per parameter  *)
(* besides that of the fragment, one "?" and one "#".                      *)
(***************************************************************************)
C18_FreeTextCannotInject ==
  /\ \A a \in 1..Len(encoded_params) : \A k \in FreeTextKeys :
       IsPrefix(k \o <<"=">>, encoded_params[a]) =>
         \A i \in (Len(k) + 2)..Len(encoded_params[a]) :
           encoded_params[a][i] \notin {" ", "&", "=", "?", "#"}
  /\ (u_pc = "return" /\ params # <<>> /\ \A i \in 1..Len(params) : params[i][1] \in FreeTextKeys) =>
       /\ Len(encoded_params) = Len(params)
       /\ Occurrences(url, "&") = Len(params) - 1
       /\ Occurrences(url, "=") = Len(params) + 1
       /\ Occurrences(url, "?") = 1
       /\ Occurrences(url, "#") = 1
       /\ Occurrences(url, " ") = 0

C18_Witness ==
  /\ u_pc = "return"
  /\ params = <<<<<<"q","u","e","r","y">>, StrV(<<"a","&","b","=","c","?","d","#","e">>)>>,
                <<<<"a","u","t","o","_","m","a","k","e","_","m","o","d","e","l">>, StrV(<<" ">>)>>>>
  /\ encoded_params = <<<<"q","u","e","r","y","=","a","%","2","6","b","%","3","D","c","%","3","F","d","%","2","3","e">>,
                        <<"a","u","t","o","_","m","a","k","e","_","m","o","d","e","l","=","%","2","0">>>>
====
